---- MODULE Spec2Model ----
(***************************************************************************)
(* Model of schema/var_type.go of webrpc: VarType.UnmarshalJSON,           *)
(* VarType.Parse, ParseVarTypeExpr, parseMapExpr and buildVarTypeExpr.     *)
(* Type expressions are sequences of one-character strings, so that the    *)
(* prefix tests, the slicing and the comma search of the Go code are       *)
(* computed character by character.  A *T pointer is a sequence of length  *)
(* 0 (nil) or 1 (the pointee).                                             *)
(***************************************************************************)
EXTENDS Integers, Sequences, FiniteSets, TLC

VARIABLES schema, vt, pc, expr, cur, entry, last, ret, input, pre, nparse

vars == <<schema, vt, pc, expr, cur, entry, last, ret, input, pre, nparse>>

(* ---------------------------- bounds ----------------------------------- *)

MaxDepth == 3

MaxMsgs == 2

MaxParses == 2

(* ------------------------ string literals ------------------------------ *)

S_empty == <<>>

S_list == <<"[", "]">>

S_map == <<"m", "a", "p">>

S_lt == <<"<">>

S_gt == <<">">>

S_comma == <<",">>

S_quote == <<"\"">>

S_space == <<" ">>

S_string == <<"s", "t", "r", "i", "n", "g">>

S_uint32 == <<"u", "i", "n", "t", "3", "2">>

S_bool == <<"b", "o", "o", "l">>

S_User == <<"U", "s", "e", "r">>

S_user == <<"u", "s", "e", "r">>

S_Nope == <<"N", "o", "p", "e">>

S_unknown == <<"<", "u", "n", "k", "n", "o", "w", "n", ">">>

S_a == <<"a">>

S_b == <<"b">>

S_c == <<"c">>

(* ------------------------- strings package ----------------------------- *)

HasPrefix(s, prefix) ==
  /\ Len(s) >= Len(prefix)
  /\ SubSeq(s, 1, Len(prefix)) = prefix

TrimPrefix(s, prefix) ==
  IF HasPrefix(s, prefix) THEN SubSeq(s, Len(prefix) + 1, Len(s)) ELSE s

\* strings.Index(s, ch) for a one-character ch: 0-based index of the first
\* occurrence, -1 when there is none.
Index(s, ch) ==
  IF \E i \in 1..Len(s) : s[i] = ch
  THEN (CHOOSE i \in 1..Len(s) : s[i] = ch /\ \A j \in 1..(i - 1) : s[j] # ch) - 1
  ELSE -1

\* Go slice expression s[lo:hi] with 0-based bounds.
Slice(s, lo, hi) == SubSeq(s, lo + 1, hi)

(* --------------------- data type registry ------------------------------ *)

DataTypes ==
  {"T_Unknown", "T_Null", "T_Any", "T_Byte", "T_Bool",
   "T_Uint", "T_Uint8", "T_Uint16", "T_Uint32", "T_Uint64",
   "T_Int", "T_Int8", "T_Int16", "T_Int32", "T_Int64",
   "T_Float32", "T_Float64", "T_String", "T_Timestamp",
   "T_Map", "T_List", "T_Struct"}

\* Types that have a spelling; T_Unknown and T_Struct have none.
SpelledTypes == DataTypes \ {"T_Unknown", "T_Struct"}

DataTypeToString ==
  [t \in SpelledTypes |->
     CASE t = "T_Null" -> <<"n", "u", "l", "l">>
       [] t = "T_Any" -> <<"a", "n", "y">>
       [] t = "T_Byte" -> <<"b", "y", "t", "e">>
       [] t = "T_Bool" -> S_bool
       [] t = "T_Uint" -> <<"u", "i", "n", "t">>
       [] t = "T_Uint8" -> <<"u", "i", "n", "t", "8">>
       [] t = "T_Uint16" -> <<"u", "i", "n", "t", "1", "6">>
       [] t = "T_Uint32" -> S_uint32
       [] t = "T_Uint64" -> <<"u", "i", "n", "t", "6", "4">>
       [] t = "T_Int" -> <<"i", "n", "t">>
       [] t = "T_Int8" -> <<"i", "n", "t", "8">>
       [] t = "T_Int16" -> <<"i", "n", "t", "1", "6">>
       [] t = "T_Int32" -> <<"i", "n", "t", "3", "2">>
       [] t = "T_Int64" -> <<"i", "n", "t", "6", "4">>
       [] t = "T_Float32" -> <<"f", "l", "o", "a", "t", "3", "2">>
       [] t = "T_Float64" -> <<"f", "l", "o", "a", "t", "6", "4">>
       [] t = "T_String" -> S_string
       [] t = "T_Timestamp" -> <<"t", "i", "m", "e", "s", "t", "a", "m", "p">>
       [] t = "T_Map" -> S_map
       [] t = "T_List" -> S_list]

\* DataType.String(): the spelling, or "" for a type without one.
DataTypeString(t) ==
  IF t \in SpelledTypes THEN DataTypeToString[t] ELSE S_empty

\* dt, ok := DataTypeFromString[s]  (the inverse of DataTypeToString; the
\* zero value T_Unknown when s is no spelling).
DataTypeFromStringOk(s) == \E t \in SpelledTypes : DataTypeToString[t] = s

DataTypeFromString(s) ==
  IF DataTypeFromStringOk(s)
  THEN CHOOSE t \in SpelledTypes : DataTypeToString[t] = s
  ELSE "T_Unknown"

VarKeyDataTypes ==
  <<"T_String", "T_Uint", "T_Uint8", "T_Uint16", "T_Uint32", "T_Uint64",
    "T_Int", "T_Int8", "T_Int16", "T_Int32", "T_Int64">>

VarIntegerDataTypes ==
  <<"T_Uint", "T_Uint8", "T_Uint16", "T_Uint32", "T_Uint64",
    "T_Int", "T_Int8", "T_Int16", "T_Int32", "T_Int64">>

isValidVarType(s, allowedList) ==
  /\ DataTypeFromStringOk(s)
  /\ \E i \in 1..Len(allowedList) : DataTypeFromString(s) = allowedList[i]

\* Mutant of isValidVarKeyType: any spelled type is accepted as a key.
isValidVarKeyType_anyType(s) == DataTypeFromStringOk(s)

isValidVarKeyType(s) == isValidVarType(s, VarKeyDataTypes)

(* ------------------------------ errors --------------------------------- *)

NoErr == "nil"

ErrJSONEmpty == "json error: type cannot be empty"

ErrJSONString == "json error: string value is expected"

ErrEmptyExpr == "schema error: type expr cannot be empty"

ErrMapExpr == "schema error: invalid map expr"

ErrMapSyntax == "schema error: invalid map syntax"

ErrMapKey == "schema error: invalid map key"

ErrMapKeyType == "schema error: invalid map key type"

ErrStruct == "schema error: invalid struct/message type"

(* ----------------------------- VarType --------------------------------- *)

\* &VarType{}
NewVarType ==
  [Expr |-> S_empty, Type |-> "T_Unknown",
   List |-> <<>>, Map |-> <<>>, Struct |-> <<>>]

\* &VarType{Expr: x}
VarTypeOf(x) == [NewVarType EXCEPT !.Expr = x]

isListExpr(e) == HasPrefix(e, DataTypeToString["T_List"])

isMapExpr(e) == HasPrefix(e, DataTypeToString["T_Map"] \o S_lt)

\* Mutant of getMessageType: the last message of that name, not the first.
getMessageType_last(sch, structExpr) ==
  IF \E i \in 1..Len(sch) : sch[i] = structExpr
  THEN [msg |-> CHOOSE i \in 1..Len(sch) :
                   sch[i] = structExpr /\ \A j \in (i + 1)..Len(sch) : sch[j] # structExpr,
        ok |-> TRUE]
  ELSE [msg |-> 0, ok |-> FALSE]

\* The catalog is a sequence of message names; a *Message is the index of
\* the message in the catalog.
getMessageType(sch, structExpr) ==
  IF \E i \in 1..Len(sch) : sch[i] = structExpr
  THEN [msg |-> CHOOSE i \in 1..Len(sch) :
                   sch[i] = structExpr /\ \A j \in 1..(i - 1) : sch[j] # structExpr,
        ok |-> TRUE]
  ELSE [msg |-> 0, ok |-> FALSE]

\* Mutant of parseMapExpr: the key and the value are split at the last comma.
parseMapExpr_lastComma(e) ==
  IF ~isMapExpr(e)
  THEN [key |-> S_empty, value |-> S_empty, err |-> ErrMapExpr]
  ELSE
    LET e1 == Slice(e, Len(DataTypeToString["T_Map"]), Len(e))
    IN IF Slice(e1, 0, 1) # S_lt \/ Slice(e1, Len(e1) - 1, Len(e1)) # S_gt
       THEN [key |-> S_empty, value |-> S_empty, err |-> ErrMapSyntax]
       ELSE
         LET e2 == Slice(e1, 1, Len(e1) - 1)
             p == IF \E i \in 1..Len(e2) : e2[i] = ","
                  THEN (CHOOSE i \in 1..Len(e2) :
                          e2[i] = "," /\ \A j \in (i + 1)..Len(e2) : e2[j] # ",") - 1
                  ELSE -1
         IN IF p < 0
            THEN [key |-> S_empty, value |-> S_empty, err |-> ErrMapSyntax]
            ELSE IF ~isValidVarKeyType(Slice(e2, 0, p))
            THEN [key |-> S_empty, value |-> S_empty, err |-> ErrMapKey]
            ELSE [key |-> Slice(e2, 0, p), value |-> Slice(e2, p + 1, Len(e2)),
                  err |-> NoErr]

parseMapExpr(e) ==
  IF ~isMapExpr(e)
  THEN [key |-> S_empty, value |-> S_empty, err |-> ErrMapExpr]
  ELSE
    LET e1 == Slice(e, Len(DataTypeToString["T_Map"]), Len(e))
    IN IF Slice(e1, 0, 1) # S_lt
       THEN [key |-> S_empty, value |-> S_empty, err |-> ErrMapSyntax]
       ELSE IF Slice(e1, Len(e1) - 1, Len(e1)) # S_gt
       THEN [key |-> S_empty, value |-> S_empty, err |-> ErrMapSyntax]
       ELSE
         LET e2 == Slice(e1, 1, Len(e1) - 1)
             p == Index(e2, ",")
         IN IF p < 0
            THEN [key |-> S_empty, value |-> S_empty, err |-> ErrMapSyntax]
            ELSE
              LET key == Slice(e2, 0, p)
                  value == Slice(e2, p + 1, Len(e2))
              IN IF ~isValidVarKeyType(key)
                 THEN [key |-> S_empty, value |-> S_empty, err |-> ErrMapKey]
                 ELSE [key |-> key, value |-> value, err |-> NoErr]

\* Mutant of listElemExpr: the list marker is not stripped.
listElemExpr_noShift(e) == e

\* expr = strings.TrimPrefix(expr, DataTypeToString[T_List])
listElemExpr(e) == TrimPrefix(e, DataTypeToString["T_List"])

\* One invocation of ParseVarTypeExpr on the VarType t, up to (and not
\* including) its recursive call.  ret is the error returned, NoErr for a
\* nil return, or "recurse" when the invocation goes on with a recursive
\* call on the expression next and the child selected by sel.
ParseFrame(sch, e, t) ==
  IF e = S_empty
  THEN [ret |-> NoErr, vt |-> t, sel |-> "none", next |-> S_empty]
  ELSE
    LET ok == DataTypeFromStringOk(e)
        dataType == IF ok THEN DataTypeFromString(e)
                    ELSE IF isListExpr(e) THEN "T_List"
                    ELSE IF isMapExpr(e) THEN "T_Map"
                    ELSE "T_Unknown"
        t1 == [t EXCEPT !.Expr = e, !.Type = dataType]
    IN CASE dataType = "T_List" ->
              [ret |-> "recurse",
               vt |-> [t1 EXCEPT !.List = <<NewVarType>>],
               sel |-> "List",
               next |-> listElemExpr(e)]
         [] dataType = "T_Map" ->
              LET m == parseMapExpr(e)
              IN IF m.err # NoErr
                 THEN [ret |-> m.err, vt |-> t1, sel |-> "none", next |-> S_empty]
                 ELSE IF ~DataTypeFromStringOk(m.key)
                 THEN [ret |-> ErrMapKeyType, vt |-> t1, sel |-> "none", next |-> S_empty]
                 ELSE [ret |-> "recurse",
                       vt |-> [t1 EXCEPT !.Map =
                                 <<[Key |-> DataTypeFromString(m.key),
                                    Value |-> NewVarType]>>],
                       sel |-> "Map",
                       next |-> m.value]
         [] dataType = "T_Unknown" ->
              LET g == getMessageType(sch, e)
              IN IF ~g.ok
                 THEN [ret |-> ErrStruct, vt |-> t1, sel |-> "none", next |-> S_empty]
                 ELSE [ret |-> NoErr,
                       vt |-> [t1 EXCEPT !.Type = "T_Struct",
                                         !.Struct = <<[Name |-> e, Message |-> g.msg]>>],
                       sel |-> "none", next |-> S_empty]
         [] OTHER -> [ret |-> NoErr, vt |-> t1, sel |-> "none", next |-> S_empty]

\* vt.List.Elem / vt.Map.Value
Child(t, sel) == IF sel = "List" THEN t.List[1] ELSE t.Map[1].Value

SetChild(t, sel, c) ==
  IF sel = "List" THEN [t EXCEPT !.List = <<c>>]
  ELSE [t EXCEPT !.Map = <<[Key |-> t.Map[1].Key, Value |-> c]>>]

\* The VarType reached from t by following the selectors of path.
RECURSIVE NodeAt(_, _)
NodeAt(t, path) ==
  IF path = <<>> THEN t ELSE NodeAt(Child(t, Head(path)), Tail(path))

RECURSIVE SetNodeAt(_, _, _)
SetNodeAt(t, path, n) ==
  IF path = <<>> THEN n
  ELSE SetChild(t, Head(path), SetNodeAt(Child(t, Head(path)), Tail(path), n))

\* ParseVarTypeExpr(schema, expr, vt) run to its return: the error and the
\* VarType as the call leaves it.
RECURSIVE ParseVarTypeExpr(_, _, _)
ParseVarTypeExpr(sch, e, t) ==
  LET f == ParseFrame(sch, e, t)
  IN IF f.ret = "recurse"
     THEN LET sub == ParseVarTypeExpr(sch, f.next, Child(f.vt, f.sel))
          IN [err |-> sub.err, vt |-> SetChild(f.vt, f.sel, sub.vt)]
     ELSE [err |-> f.ret, vt |-> f.vt]

RECURSIVE buildVarTypeExpr(_, _)
buildVarTypeExpr(t, e) ==
  CASE t.Type = "T_Unknown" -> S_unknown
    [] t.Type = "T_List" -> e \o S_list \o buildVarTypeExpr(t.List[1], e)
    [] t.Type = "T_Map" ->
         e \o S_map \o S_lt \o DataTypeString(t.Map[1].Key) \o S_comma
           \o buildVarTypeExpr(t.Map[1].Value, S_empty) \o S_gt
    [] t.Type = "T_Struct" -> e \o t.Struct[1].Name
    [] OTHER -> e \o DataTypeString(t.Type)

\* (t *VarType) Parse(schema) run to its return.
VarTypeParse(sch, t) ==
  IF t.Expr = S_empty
  THEN [err |-> ErrEmptyExpr, vt |-> t]
  ELSE LET r == ParseVarTypeExpr(sch, t.Expr, t)
       IN IF r.err # NoErr
          THEN r
          ELSE [err |-> NoErr,
                vt |-> [r.vt EXCEPT !.Expr = buildVarTypeExpr(r.vt, S_empty)]]

\* (t *VarType) UnmarshalJSON(b)
VarTypeUnmarshalJSON(t, b) ==
  IF Len(b) <= 2
  THEN [err |-> ErrJSONEmpty, vt |-> t]
  ELSE IF Slice(b, 0, 1) # S_quote
  THEN [err |-> ErrJSONString, vt |-> t]
  ELSE IF Slice(b, Len(b) - 1, Len(b)) # S_quote
  THEN [err |-> ErrJSONString, vt |-> t]
  ELSE LET s1 == Slice(b, 1, Len(b))
           s2 == Slice(s1, 0, Len(s1) - 1)
       IN [err |-> NoErr, vt |-> [t EXCEPT !.Expr = s2]]

(* ------------------------------ inputs --------------------------------- *)

MapOf(k, v) == S_map \o S_lt \o k \o S_comma \o v \o S_gt

\* Leaf expressions that occur at any nesting depth: a primitive, a message
\* name, a name no catalog has, the empty text and a map with two commas.
Atoms ==
  {S_uint32, S_User, S_Nope, S_empty, MapOf(S_a, S_b \o S_comma \o S_c)}

\* Expressions that are only tried as the whole input.
TopAtoms ==
  {S_bool, S_user, S_space, S_map, S_unknown, S_list \o S_unknown,
   S_map \o S_lt \o S_string \o S_gt,
   S_map \o S_lt \o S_string \o S_comma \o S_uint32,
   MapOf(S_string, S_b \o S_comma \o S_c),
   MapOf(S_list \o S_string, S_uint32)}

\* Key texts at any nesting depth: one whitelisted, one non-whitelisted
\* primitive (a container as key is among TopAtoms).
Keys == {S_string, S_bool}

RECURSIVE Exprs(_)
Exprs(d) ==
  IF d = 0 THEN Atoms
  ELSE LET sub == Exprs(d - 1)
       IN Atoms \cup {S_list \o x : x \in sub}
                \cup {MapOf(k, x) : k \in Keys, x \in sub}

Inputs == Exprs(MaxDepth) \cup TopAtoms

MsgNames == {S_User, S_bool}

RECURSIVE Catalogs(_)
Catalogs(n) ==
  IF n = 0 THEN {<<>>}
  ELSE LET sub == Catalogs(n - 1)
       IN sub \cup {Append(c, m) : c \in sub, m \in MsgNames}

Quoted(s) == S_quote \o s \o S_quote

JsonInputs ==
  {Quoted(S_uint32), Quoted(MapOf(S_string, S_uint32)),
   Quoted(S_empty), S_uint32, S_quote \o S_uint32}

DirectInputs == {S_empty, S_list \o S_Nope}

(* ------------------- vocabulary of the properties ---------------------- *)

\* A call of Parse (resp. of Parse or ParseVarTypeExpr) has returned and
\* nothing was called since; input is the expression it was given, pre the
\* VarType before the call, ret the error it returned.
ParseReturned == pc = "idle" /\ last = "Parse"

AnyParseReturned == pc = "idle" /\ last \in {"Parse", "ParseVarTypeExpr"}

\* The call that returned was the first one on a newly constructed VarType.
FreshParseReturned == ParseReturned /\ nparse = 1

\* Every VarType reachable from t through List and Map pointers.
RECURSIVE Nodes(_)
Nodes(t) ==
  {t} \cup (IF t.List # <<>> THEN Nodes(t.List[1]) ELSE {})
      \cup (IF t.Map # <<>> THEN Nodes(t.Map[1].Value) ELSE {})

Descr(type, key, name) == [Type |-> type, Key |-> key, Name |-> name]

\* The tree of t read by kind: one descriptor (kind, key type, struct name)
\* per node, from the root down the element / value chain.
RECURSIVE Shape(_)
Shape(t) ==
  CASE t.Type = "T_List" -> <<Descr("T_List", "none", S_empty)>> \o Shape(t.List[1])
    [] t.Type = "T_Map" ->
         <<Descr("T_Map", t.Map[1].Key, S_empty)>> \o Shape(t.Map[1].Value)
    [] t.Type = "T_Struct" -> <<Descr("T_Struct", "none", t.Struct[1].Name)>>
    [] OTHER -> <<Descr(t.Type, "none", S_empty)>>

Contains(s, sub) ==
  \E i \in 1..(Len(s) - Len(sub) + 1) : SubSeq(s, i, i + Len(sub) - 1) = sub

OnlySpace(s) == \A i \in 1..Len(s) : s[i] = " "

CountOf(s, ch, n) == Cardinality({i \in 1..n : s[i] = ch})

\* Commas of s that are outside every <...> pair of s.
TopLevelCommas(s) ==
  Cardinality({i \in 1..Len(s) :
                 s[i] = "," /\ CountOf(s, "<", i) = CountOf(s, ">", i)})

S_mapOpen == S_map \o S_lt

\* The text between "map<" and the last character of x.
MapInner(x) == SubSeq(x, Len(S_mapOpen) + 1, Len(x) - 1)

PrimitiveTypes == SpelledTypes \ {"T_Map", "T_List"}

KeySpellings == {DataTypeToString[VarKeyDataTypes[i]] : i \in 1..Len(VarKeyDataTypes)}

CatalogNames == {schema[i] : i \in 1..Len(schema)}

\* Well-formed expressions with the tree each one denotes, built from the
\* grammar alone: primitives, message names, "[]" + element and
\* "map<" + key + "," + value + ">".
WFPrims == {"T_Uint32", "T_Bool", "T_String"}

WFKeys == {"T_String", "T_Uint32"}

WFNames == {n \in MsgNames : \A t \in SpelledTypes : DataTypeToString[t] # n}

WFLeaves ==
  {[text |-> DataTypeToString[t], tree |-> <<Descr(t, "none", S_empty)>>] : t \in WFPrims}
  \cup {[text |-> n, tree |-> <<Descr("T_Struct", "none", n)>>] : n \in WFNames}

RECURSIVE WellFormed(_)
WellFormed(d) ==
  IF d = 0 THEN WFLeaves
  ELSE LET sub == WellFormed(d - 1)
       IN WFLeaves
          \cup {[text |-> S_list \o p.text,
                 tree |-> <<Descr("T_List", "none", S_empty)>> \o p.tree] : p \in sub}
          \cup {[text |-> MapOf(DataTypeToString[k], p.text),
                 tree |-> <<Descr("T_Map", k, S_empty)>> \o p.tree] : k \in WFKeys, p \in sub}

WellFormedAll == WellFormed(MaxDepth)

StructNames(tree) == {tree[i].Name : i \in {j \in 1..Len(tree) : tree[j].Type = "T_Struct"}}

(* ------------------------------ claims --------------------------------- *)

\* C1: the canonical text c of a successful Parse of a fresh VarType parses
\* again, on a fresh VarType against the same catalog, without error, to the
\* canonical text c and to a structurally equal tree.
C1_CanonicalFixedPoint ==
  (FreshParseReturned /\ ret = NoErr) =>
    LET r == VarTypeParse(schema, VarTypeOf(vt.Expr))
    IN /\ r.err = NoErr
       /\ r.vt.Expr = vt.Expr
       /\ Shape(r.vt) = Shape(vt)

\* C2: every well-formed expression whose message names are in the catalog
\* parses without error to the tree the grammar gives it (kind per node, key
\* before the first comma, value after it), and its canonical text is the
\* input.
C2_WellFormedParses ==
  FreshParseReturned =>
    \A p \in WellFormedAll :
      (p.text = input /\ StructNames(p.tree) \subseteq CatalogNames) =>
        /\ ret = NoErr
        /\ Shape(vt) = p.tree
        /\ vt.Expr = input

\* C2 witness: a map whose value is a list of maps has been parsed.
C2_Witness ==
  /\ FreshParseReturned
  /\ ret = NoErr
  /\ input = MapOf(S_string, S_list \o MapOf(S_string, S_User))
  /\ Len(Shape(vt)) = 4

\* C3: after a Parse that returned no error no node of the tree has kind
\* Unknown and the canonical text does not contain "<unknown>".
C3_NoUnknownOnSuccess ==
  (ParseReturned /\ ret = NoErr) =>
    /\ \A i \in 1..Len(Shape(vt)) : Shape(vt)[i].Type # "T_Unknown"
    /\ ~Contains(vt.Expr, S_unknown)

\* C4: after Parse or ParseVarTypeExpr returned an error, the VarType of the
\* caller is as it was before the call.
C4_NoPartialStateOnError ==
  (AnyParseReturned /\ ret # NoErr) => vt = pre

\* C5: an expression that starts with "map<" and does not end with ">", or
\* has no comma inside, or has more than one top-level comma inside, fails
\* with the invalid-map-syntax error.
C5_MalformedMapIsSyntaxError ==
  (/\ ParseReturned
   /\ HasPrefix(input, S_mapOpen)
   /\ \/ input[Len(input)] # ">"
      \/ TopLevelCommas(MapInner(input)) # 1)
  => ret = ErrMapSyntax

\* C6: after a successful Parse every Map payload has a whitelisted key
\* type; and Parse of "map<K,V>" with exactly one comma and K not the
\* spelling of a whitelisted type fails with the invalid-map-key error.
C6_MapKeysWhitelisted ==
  ParseReturned =>
    /\ ret = NoErr =>
         \A n \in Nodes(vt) :
           n.Map # <<>> =>
             \E i \in 1..Len(VarKeyDataTypes) : n.Map[1].Key = VarKeyDataTypes[i]
    /\ (/\ HasPrefix(input, S_mapOpen)
        /\ input[Len(input)] = ">"
        /\ CountOf(MapInner(input), ",", Len(MapInner(input))) = 1
        /\ SubSeq(MapInner(input), 1, Index(MapInner(input), ",")) \notin KeySpellings)
       => ret \in {ErrMapKey, ErrMapKeyType}

\* C6 witness: a map with a whitelisted key was parsed, and so was one whose
\* key is a container.
C6_Witness ==
  /\ ParseReturned
  /\ \/ /\ ret = NoErr
        /\ vt.Type = "T_Map"
        /\ vt.Map[1].Key = "T_String"
     \/ /\ input = MapOf(S_list \o S_string, S_uint32)
        /\ ret = ErrMapKey

\* C7: Parse and ParseVarTypeExpr return the empty-expression error for the
\* empty expression and for every expression of whitespace only.
C7_EmptyExpressionError ==
  (AnyParseReturned /\ OnlySpace(input)) => ret = ErrEmptyExpr

\* The outcome the classification order prescribes for an expression x
\* without list or map marker prefix: primitive first, then the first
\* catalog message of that exact name, else the unknown-type error.
ClassifiedInOrder(x) ==
  IF \E t \in PrimitiveTypes : DataTypeToString[t] = x
  THEN /\ ret = NoErr
       /\ vt.Type \in PrimitiveTypes
       /\ DataTypeToString[vt.Type] = x
       /\ vt.Expr = x
  ELSE IF x \in CatalogNames
  THEN /\ ret = NoErr
       /\ vt.Type = "T_Struct"
       /\ vt.Struct # <<>>
       /\ vt.Struct[1].Name = x
       /\ schema[vt.Struct[1].Message] = x
       /\ \A j \in 1..(vt.Struct[1].Message - 1) : schema[j] # x
  ELSE ret = ErrStruct

C9_PayloadMatchesKind ==
  (ParseReturned /\ ret = NoErr) =>
    \A n \in Nodes(vt) :
      /\ (n.List # <<>>) <=> (n.Type = "T_List")
      /\ (n.Map # <<>>) <=> (n.Type = "T_Map")
      /\ (n.Struct # <<>>) <=> (n.Type = "T_Struct")

\* C10: every recursive call of ParseVarTypeExpr gets a strictly shorter
\* expression than its caller, and the recursion depth plus the length of
\* the expression still to parse never exceeds the length of the input: a
\* parse makes at most Len(input) recursive calls before it returns.
C10_ParseTerminates ==
  /\ [][(pc = "parse" /\ pc' = "parse") => Len(expr') < Len(expr)]_vars
  /\ [](pc = "parse" => Len(cur) + Len(expr) <= Len(input))

\* C10 witness: a parse is three recursive calls deep.
C10_Witness == pc = "parse" /\ Len(cur) = 3

(* --------------------------- state machine ----------------------------- *)

Init ==
  /\ schema \in Catalogs(MaxMsgs)
  /\ vt \in {VarTypeOf(x) : x \in Inputs}
  /\ pc = "idle"
  /\ expr = S_empty
  /\ cur = <<>>
  /\ entry = "none"
  /\ last = "none"
  /\ ret = NoErr
  /\ input = S_empty
  /\ pre = NewVarType
  /\ nparse = 0

UnmarshalJSON(b) ==
  /\ pc = "idle"
  /\ nparse < MaxParses
  /\ LET r == VarTypeUnmarshalJSON(vt, b)
     IN /\ vt' = r.vt
        /\ ret' = r.err
  /\ last' = "UnmarshalJSON"
  /\ UNCHANGED <<schema, pc, expr, cur, entry, input, pre, nparse>>

\* t.Parse(schema) is called; its first lines up to the call of
\* ParseVarTypeExpr.
Parse ==
  /\ pc = "idle"
  /\ nparse < MaxParses
  /\ nparse' = nparse + 1
  /\ input' = vt.Expr
  /\ pre' = vt
  /\ entry' = "Parse"
  /\ cur' = <<>>
  /\ IF vt.Expr = S_empty
     THEN /\ ret' = ErrEmptyExpr
          /\ last' = "Parse"
          /\ UNCHANGED <<pc, expr>>
     ELSE /\ pc' = "parse"
          /\ expr' = vt.Expr
          /\ UNCHANGED <<ret, last>>
  /\ UNCHANGED <<schema, vt>>

\* A caller invokes the exported ParseVarTypeExpr(schema, x, vt) itself.
CallParseVarTypeExpr(x) ==
  /\ pc = "idle"
  /\ nparse < MaxParses
  /\ nparse' = nparse + 1
  /\ input' = x
  /\ pre' = vt
  /\ entry' = "ParseVarTypeExpr"
  /\ cur' = <<>>
  /\ pc' = "parse"
  /\ expr' = x
  /\ UNCHANGED <<schema, vt, ret, last>>

\* One invocation of ParseVarTypeExpr runs: it either calls itself on the
\* child, or returns; an error returns through every caller.
ParseStep ==
  /\ pc = "parse"
  /\ LET f == ParseFrame(schema, expr, NodeAt(vt, cur))
     IN /\ vt' = SetNodeAt(vt, cur, f.vt)
        /\ IF f.ret = "recurse"
           THEN /\ expr' = f.next
                /\ cur' = Append(cur, f.sel)
                /\ UNCHANGED <<pc, ret, last>>
           ELSE IF f.ret = NoErr /\ entry = "Parse"
           THEN /\ pc' = "build"
                /\ UNCHANGED <<expr, cur, ret, last>>
           ELSE /\ pc' = "idle"
                /\ ret' = f.ret
                /\ last' = entry
                /\ UNCHANGED <<expr, cur>>
  /\ UNCHANGED <<schema, entry, input, pre, nparse>>

\* Parse, after ParseVarTypeExpr returned nil: t.Expr = buildVarTypeExpr(t, "")
ParseBuild ==
  /\ pc = "build"
  /\ vt' = [vt EXCEPT !.Expr = buildVarTypeExpr(vt, S_empty)]
  /\ pc' = "idle"
  /\ ret' = NoErr
  /\ last' = "Parse"
  /\ UNCHANGED <<schema, expr, cur, entry, input, pre, nparse>>

Next ==
  \/ \E b \in JsonInputs : UnmarshalJSON(b)
  \/ Parse
  \/ \E x \in DirectInputs : CallParseVarTypeExpr(x)
  \/ ParseStep
  \/ ParseBuild

Spec == Init /\ [][Next]_vars

====
